---- MODULE Spec2Model ----
(***************************************************************************)
(* typst-preprocess: the job scheduler of main.rs, the web-resource        *)
(* preprocessor and the query builder / command line of query.rs.          *)
(*                                                                         *)
(* Option<T> is modelled as a sequence of length at most one: None is <<>> *)
(* and Some(v) is <<v>>.  Result<T, E> is a record with an `ok` flag.      *)
(***************************************************************************)
EXTENDS Integers, Sequences, FiniteSets, TLC

\* ------------------------------------------------------------------ bounds
MaxJobs == 2
MaxRes == 2
MaxTasks == 2
NChunks == 2
MaxRuns == 3

\* ------------------------------------------------------------ Option/Result
None == <<>>
Some(v) == <<v>>
IsSome(o) == o # None
Unwrap(o) == o[1]
\* Option::or
Or(a, b) == IF IsSome(a) THEN a ELSE b
Ok(v) == [ok |-> TRUE, val |-> v]
Err(e) == [ok |-> FALSE, err |-> e]

\* ------------------------------------------------------- query.rs: builder
\* The values a user's `[query]` table and a kind's defaults are drawn from.
Selectors == {"<sel>", "<other>"}
FieldNames == {"name", "other"}
InputKeys == {"k", "prequery-fallback"}
InputValues == {"true", "v"}
OptSelector == {None} \cup {Some(s) : s \in Selectors}
\* Option<Option<String>>: not specified, explicitly disabled, a name
OptField == {None, Some(None)} \cup {Some(Some(f)) : f \in FieldNames}
OptOne == {None, Some(TRUE), Some(FALSE)}
InputMaps == UNION {[ks -> InputValues] : ks \in SUBSET InputKeys}
ConfigQuery == [selector : OptSelector, field : OptField, one : OptOne, inputs : InputMaps]
\* The defaults of a kind use one selector and one field name.
QueryBuilder == [selector : {None, Some("<sel>")}, field : {None, Some(None), Some(Some("name"))},
                 one : OptOne]

BuildDefaultWins(self, config) ==
    LET selector == Or(self.selector, config.selector)
        field == Or(self.field, config.field)
        one == Or(self.one, config.one)
    IN  IF ~IsSome(selector) THEN Err("Selector")
        ELSE IF ~IsSome(field) THEN Err("Field")
        ELSE IF ~IsSome(one) THEN Err("One")
        ELSE Ok([selector |-> Unwrap(selector), field |-> Unwrap(field),
                 one |-> Unwrap(one), inputs |-> config.inputs])

\* QueryBuilder::build
Build(self, config) ==
    LET selector == Or(config.selector, self.selector)
        field == Or(config.field, self.field)
        one == Or(config.one, self.one)
    IN  IF ~IsSome(selector) THEN Err("Selector")
        ELSE IF ~IsSome(field) THEN Err("Field")
        ELSE IF ~IsSome(one) THEN Err("One")
        ELSE Ok([selector |-> Unwrap(selector), field |-> Unwrap(field),
                 one |-> Unwrap(one), inputs |-> config.inputs])

\* ---------------------------------------------------- query.rs: command line
\* The orders in which a HashMap with key set ks may be iterated.
KeyOrders(ks) ==
    {o \in [1..Cardinality(ks) -> ks] : \A i, k \in DOMAIN o : i # k => o[i] # o[k]}

RECURSIVE InputArgsDedup(_, _)
InputArgsDedup(inputs, order) ==
    IF order = <<>> THEN <<>>
    ELSE (IF Head(order) = "prequery-fallback" THEN <<>>
          ELSE <<"--input", Head(order) \o "=" \o inputs[Head(order)]>>)
         \o InputArgsDedup(inputs, Tail(order))

RECURSIVE InputArgs(_, _)
\* query.rs 51-55: one `--input key=value` pair per entry, in iteration order
InputArgs(inputs, order) ==
    IF order = <<>> THEN <<>>
    ELSE <<"--input", Head(order) \o "=" \o inputs[Head(order)]>>
         \o InputArgs(inputs, Tail(order))

CommandOneFirst(a, q, order) ==
    <<"query">>
    \o (IF IsSome(a.root) THEN <<"--root", Unwrap(a.root)>> ELSE <<>>)
    \o (IF q.one THEN <<"--one">> ELSE <<>>)
    \o (IF IsSome(q.field) THEN <<"--field", Unwrap(q.field)>> ELSE <<>>)
    \o InputArgs(q.inputs, order)
    \o <<"--input", "prequery-fallback=true">>
    \o <<a.input, q.selector>>

\* Query::command: the arguments after the program name
Command(a, q, order) ==
    <<"query">>
    \o (IF IsSome(a.root) THEN <<"--root", Unwrap(a.root)>> ELSE <<>>)
    \o (IF IsSome(q.field) THEN <<"--field", Unwrap(q.field)>> ELSE <<>>)
    \o (IF q.one THEN <<"--one">> ELSE <<>>)
    \o InputArgs(q.inputs, order)
    \o <<"--input", "prequery-fallback=true">>
    \o <<a.input, q.selector>>

\* ------------------------------------------------------------ program state
VARIABLES
    args,       \* ARGS: the resolved command line (root, input file)
    bSelf,      \* a QueryBuilder with some kind's defaults
    bConfig,    \* a user's query config handed to build
    bResult,    \* what build returned
    cmdLine,    \* what command built for the resolved query
    rawQuery,   \* a `query` table as written in typst.toml
    parsed,     \* what deserializing that table returned
    qOut,       \* what the `typst query` child process did
    qResult,    \* what Query::query returned for it
    fs,         \* the files below (and beside) the project root
    run,        \* which invocation of the process this is
    manifest,   \* config.jobs: the declared jobs
    mainpc,     \* where main is
    jobs,       \* main.rs 18: the result of get_preprocessor per declaration
    stderr,     \* main.rs 32: the reported configuration errors
    nextSpawn,  \* main.rs 41: the next job the spawn loop takes
    joined,     \* main.rs 59: the job tasks join_next has returned
    success,    \* main.rs 58
    exit,       \* the process result
    jobpc,      \* where each spawned job task is
    jobres,     \* what each job's run returned
    qres,       \* what each job's query returned
    notes,      \* the notification lines printed for each job
    task        \* the download task of each record of each job's query result

pureVars == <<args, bSelf, bConfig, bResult, cmdLine, rawQuery, parsed, qOut, qResult>>
procVars == <<fs, run, manifest, mainpc, jobs, stderr, nextSpawn, joined, success,
              exit, jobpc, jobres, qres, notes, task>>
vars == <<args, bSelf, bConfig, bResult, cmdLine, rawQuery, parsed, qOut, qResult,
          fs, run, manifest, mainpc, jobs, stderr, nextSpawn, joined, success, exit,
          jobpc, jobres, qres, notes, task>>

Jobs == 1..MaxJobs
Slots == 1..MaxRes

\* ---------------------------------------------------------------- ARGS
Args == [root : {None, Some("root")}, input : {"main.typ"}]
DefaultArgs == [root |-> None, input |-> "main.typ"]

\* A resource path either stays below the project root or escapes it.
InsidePaths == {"assets/a"}
OutsidePaths == {"../x"}
Paths == InsidePaths \cup OutsidePaths
Urls == {"https://x/a"}
Resource == [url : Urls, path : Paths]

\* ARGS.resolve: the path below the root, or an error when it escapes the root
Resolve(path) == IF path \in OutsidePaths THEN Err("PathOutsideRoot") ELSE Ok(path)

\* ------------------------------------------- web-resource configuration
\* manifest.rs 12-28: overwrite, index, evict
Manifest == [overwrite : BOOLEAN, index : {None, Some("web-resource-index.toml")},
             evict : BOOLEAN]
\* a kind table that does not decode to the Manifest struct
Invalid == [invalid |-> TRUE]
\* The query tables the declared jobs of the scheduler runs carry.
JobQueries == [selector : {None}, field : {None}, one : {None, Some(TRUE)},
               inputs : {<<>>}]
Kinds == {"web-resource", "bogus"}
Decl == [kind : Kinds, query : JobQueries, config : Manifest \cup {Invalid}]

\* WebResourceFactory::parse_config
ParseConfig(config) ==
    IF config = Invalid THEN Err("invalid web-resource configuration") ELSE Ok(config)

WebResourceDefaults ==
    [selector |-> Some("<web-resource>"), field |-> Some(Some("value")), one |-> Some(FALSE)]

BuildQueryAllowsOne(config) == Build(WebResourceDefaults, config)

\* WebResourceFactory::build_query
BuildQuery(config) ==
    LET q == Build(WebResourceDefaults, config)
    IN  IF ~q.ok THEN q
        ELSE IF q.val.one THEN Err("web-resource prequery does not support --one")
        ELSE q

\* WebResourceFactory::configure
Configure(config, query) ==
    LET c == ParseConfig(config)
        q == BuildQuery(query)
    IN  IF ~c.ok THEN c
        ELSE IF ~q.ok THEN q
        ELSE Ok([config |-> c.val, query |-> q.val])

\* preprocessor::get_preprocessor: the registry lookup by kind
GetPreprocessor(decl) ==
    IF decl.kind = "web-resource" THEN Configure(decl.config, decl.query)
    ELSE Err("UnknownKind")

\* ------------------------------------------------------------ file system
Absent == [st |-> "absent", n |-> 0]
\* a file that was there before the first run
Orig == [st |-> "orig", n |-> 0]
\* a file created by a download, holding n chunks of the body
Downloaded(n) == [st |-> "dl", n |-> n]
Present(f) == f.st # "absent"
Max(a, b) == IF a >= b THEN a ELSE b

\* ------------------------------------------------------------ task records
IdleTask == [pc |-> "idle", res |-> [url |-> "", path |-> ""], exists |-> "unknown",
             index |-> "unused", decision |-> "none", result |-> "none", off |-> 0,
             ops |-> {}]
SpawnedTask(resource) == [IdleTask EXCEPT !.pc = "start", !.res = resource]
\* a finished task: `?` or the final Ok(())
Finish(t, result) == [t EXCEPT !.pc = "done", !.result = result]
Did(t, op) == [t EXCEPT !.ops = @ \cup {op}]

\* The query results: at most MaxRes records
QueryData == UNION {[1..n -> Resource] : n \in 0..MaxRes}

\* ----------------------------------------------------------------- Init
ProcInit(decls) ==
    /\ fs \in {f \in [Paths -> {Absent, Orig}] : \A p \in OutsidePaths : f[p] = Absent}
    /\ run = 1
    /\ manifest \in decls
    /\ mainpc = "start"
    /\ jobs = <<>>
    /\ stderr = {}
    /\ nextSpawn = 1
    /\ joined = {}
    /\ success = TRUE
    /\ exit = "none"
    /\ jobpc = [j \in Jobs |-> "unspawned"]
    /\ jobres = [j \in Jobs |-> "none"]
    /\ qres = [j \in Jobs |-> "none"]
    /\ notes = [j \in Jobs |-> <<>>]
    /\ task = [j \in Jobs |-> [i \in Slots |-> IdleTask]]

PureIdle ==
    /\ args = DefaultArgs
    /\ bSelf = WebResourceDefaults
    /\ bConfig = [selector |-> None, field |-> None, one |-> None, inputs |-> <<>>]
    /\ bResult = None
    /\ cmdLine = None
    /\ rawQuery = None
    /\ parsed = None
    /\ qOut = None
    /\ qResult = None

\* The manifests the scheduler is run on: up to MaxJobs declarations of a known
\* or unknown kind, with a valid or an invalid kind table.
SchedConfigs == {c \in Manifest : c.index = None /\ ~c.evict} \cup {Invalid}
SchedDecl == {d \in Decl : d.config \in SchedConfigs}
Manifests == UNION {[1..n -> SchedDecl] : n \in 0..MaxJobs}

Init == PureIdle /\ ProcInit(Manifests)

\* ----------------------------------------------------------------- main
AbortIfAllFail(built) == built # <<>> /\ \A j \in DOMAIN built : ~built[j].ok

\* main.rs 24-29: errors.peek().is_some()
HasErrors(built) == \E j \in DOMAIN built : ~built[j].ok

\* main.rs 18-37: every declared job is constructed; with any error, all of
\* them are reported and main returns the error.  Otherwise the spawn loop
\* starts.
MainConstruct ==
    /\ mainpc = "start"
    /\ LET built == [j \in DOMAIN manifest |-> GetPreprocessor(manifest[j])]
           errors == {j \in DOMAIN built : ~built[j].ok}
       IN  /\ jobs' = built
           /\ IF HasErrors(built)
              THEN /\ stderr' = {<<j, built[j].err>> : j \in errors}
                   /\ mainpc' = "done"
                   /\ exit' = "fail"
              ELSE /\ stderr' = stderr
                   /\ mainpc' = "spawn"
                   /\ exit' = exit
    /\ UNCHANGED <<pureVars, fs, run, manifest, nextSpawn, joined, success, jobpc,
                   jobres, qres, notes, task>>

\* main.rs 41-56: one iteration of the spawn loop; `expect` lets no job pass
\* that failed to construct
MainSpawn ==
    /\ mainpc = "spawn"
    /\ nextSpawn <= Len(jobs)
    /\ jobs[nextSpawn].ok
    /\ jobpc' = [jobpc EXCEPT ![nextSpawn] = "begin"]
    /\ nextSpawn' = nextSpawn + 1
    /\ UNCHANGED <<pureVars, fs, run, manifest, mainpc, jobs, stderr, joined, success,
                   exit, jobres, qres, notes, task>>

\* main.rs 56-58: the spawn loop is over
MainSpawned ==
    /\ mainpc = "spawn"
    /\ nextSpawn > Len(jobs)
    /\ mainpc' = "join"
    /\ UNCHANGED <<pureVars, fs, run, manifest, jobs, stderr, nextSpawn, joined,
                   success, exit, jobpc, jobres, qres, notes, task>>

AccumulateLast(acc, result) == result = "ok"

\* main.rs 61: success &= result.is_ok()
Accumulate(acc, result) == acc /\ result = "ok"

\* main.rs 59-62: join_next returns a finished job task
MainJoin(j) ==
    /\ mainpc = "join"
    /\ j \in DOMAIN jobs
    /\ j \notin joined
    /\ jobpc[j] = "done"
    /\ joined' = joined \cup {j}
    /\ success' = Accumulate(success, jobres[j])
    /\ UNCHANGED <<pureVars, fs, run, manifest, mainpc, jobs, stderr, nextSpawn, exit,
                   jobpc, jobres, qres, notes, task>>

SetEmptyOrFailed(done, ok) == done = DOMAIN jobs \/ ~ok

\* main.rs 59: join_next returns None once every spawned task was returned
SetEmpty(done, ok) == done = DOMAIN jobs

\* main.rs 59, 64-66: the set is empty, main returns
MainFinish ==
    /\ mainpc = "join"
    /\ SetEmpty(joined, success)
    /\ mainpc' = "done"
    /\ exit' = IF success THEN "ok" ELSE "fail"
    /\ UNCHANGED <<pureVars, fs, run, manifest, jobs, stderr, nextSpawn, joined,
                   success, jobpc, jobres, qres, notes, task>>

\* ------------------------------------------------------------ query.rs
\* What the `typst query` child process can do: fail to launch or to be read,
\* exit with a status, and print stdout that decodes to the records or not.
Outputs == [launched : BOOLEAN, status : {0, 1}, decodes : BOOLEAN, data : QueryData]

RunQueryDecodeFirst(command, out) ==
    IF ~out.launched THEN Err([kind |-> "Io"])
    ELSE IF ~out.decodes THEN Err([kind |-> "Json"])
    ELSE IF out.status # 0
         THEN Err([kind |-> "Failure", command |-> command, status |-> out.status])
    ELSE Ok(out.data)

\* Query::query 64-78: the I/O error of launching or reading the child, else
\* the failure with the command and the status, else the decoding error, else
\* the decoded value
RunQuery(command, out) ==
    IF ~out.launched THEN Err([kind |-> "Io"])
    ELSE IF out.status # 0
         THEN Err([kind |-> "Failure", command |-> command, status |-> out.status])
    ELSE IF ~out.decodes THEN Err([kind |-> "Json"])
    ELSE Ok(out.data)

\* ------------------------------------------------------------ a job task
\* main.rs 44: the start notification
JobBegin(j) ==
    /\ jobpc[j] = "begin"
    /\ notes' = [notes EXCEPT ![j] = Append(@, "beginning job")]
    /\ jobpc' = [jobpc EXCEPT ![j] = "query"]
    /\ UNCHANGED <<pureVars, fs, run, manifest, mainpc, jobs, stderr, nextSpawn, joined,
                   success, exit, jobres, qres, task>>

ReportAlwaysFinished(result) == "job finished"

\* main.rs 46-54: the terminal notification for the result of run
Report(result) == IF result = "ok" THEN "job finished" ELSE "job failed"

\* The download tasks spawned so far in this run of the process
Spawned == Cardinality({<<j, i>> \in Jobs \X Slots : task[j][i].pc # "idle"})

JobQueryDefault(j) ==
    /\ jobpc[j] = "query"
    /\ \E out \in Outputs, order \in KeyOrders(DOMAIN jobs[j].val.query.inputs) :
         /\ Len(out.data) + Spawned <= MaxTasks
         /\ LET command == Command(args, jobs[j].val.query, order)
                query_data == RunQuery(command, out)
                records == IF query_data.ok THEN query_data.val ELSE <<>>
            IN  /\ task' = [task EXCEPT ![j] = [i \in Slots |->
                               IF i \in DOMAIN records
                               THEN SpawnedTask(records[i]) ELSE IdleTask]]
                /\ jobpc' = [jobpc EXCEPT ![j] = "joining"]
                /\ qres' = [qres EXCEPT ![j] =
                               IF query_data.ok THEN "ok" ELSE query_data.err.kind]
                /\ UNCHANGED <<jobres, notes>>
    /\ UNCHANGED <<pureVars, fs, run, manifest, mainpc, jobs, stderr, nextSpawn, joined,
                   success, exit>>

\* WebResource::run 84-89 (and main.rs 45-54 when the query failed): the query,
\* then one download task per record
JobQuery(j) ==
    /\ jobpc[j] = "query"
    /\ \E out \in Outputs, order \in KeyOrders(DOMAIN jobs[j].val.query.inputs) :
         /\ Len(out.data) + Spawned <= MaxTasks
         /\ LET command == Command(args, jobs[j].val.query, order)
                query_data == RunQuery(command, out)
            IN  IF query_data.ok
                THEN /\ task' = [task EXCEPT ![j] = [i \in Slots |->
                                    IF i \in DOMAIN query_data.val
                                    THEN SpawnedTask(query_data.val[i]) ELSE IdleTask]]
                     /\ jobpc' = [jobpc EXCEPT ![j] = "joining"]
                     /\ qres' = [qres EXCEPT ![j] = "ok"]
                     /\ UNCHANGED <<jobres, notes>>
                ELSE /\ qres' = [qres EXCEPT ![j] = query_data.err.kind]
                     /\ jobres' = [jobres EXCEPT ![j] = "err"]
                     /\ notes' = [notes EXCEPT ![j] = Append(@, Report("err"))]
                     /\ jobpc' = [jobpc EXCEPT ![j] = "done"]
                     /\ UNCHANGED task
    /\ UNCHANGED <<pureVars, fs, run, manifest, mainpc, jobs, stderr, nextSpawn, joined,
                   success, exit>>

\* WebResource::run 91-95: the results of the joined tasks are dropped
JoinResult(tasks) == "ok"

JobJoinOnFirstError(j) ==
    /\ jobpc[j] = "joining"
    /\ \/ \A i \in Slots : task[j][i].pc \in {"idle", "done"}
       \/ \E i \in Slots : task[j][i].pc = "done" /\ task[j][i].result # "ok"
    /\ jobres' = [jobres EXCEPT ![j] = JoinResult(task[j])]
    /\ notes' = [notes EXCEPT ![j] = Append(@, Report(JoinResult(task[j])))]
    /\ jobpc' = [jobpc EXCEPT ![j] = "done"]
    /\ UNCHANGED <<pureVars, fs, run, manifest, mainpc, jobs, stderr, nextSpawn, joined,
                   success, exit, qres, task>>

\* WebResource::run 91-95 and main.rs 46-54: every download task has been
\* joined, run returns and the job reports
JobJoin(j) ==
    /\ jobpc[j] = "joining"
    /\ \A i \in Slots : task[j][i].pc \in {"idle", "done"}
    /\ jobres' = [jobres EXCEPT ![j] = JoinResult(task[j])]
    /\ notes' = [notes EXCEPT ![j] = Append(@, Report(JoinResult(task[j])))]
    /\ jobpc' = [jobpc EXCEPT ![j] = "done"]
    /\ UNCHANGED <<pureVars, fs, run, manifest, mainpc, jobs, stderr, nextSpawn, joined,
                   success, exit, qres, task>>

\* ------------------------------------------------- WebResource::download
\* manifest.rs 31-48: None without an index; otherwise the index path beside
\* typst.toml, or the I/O error of resolving typst.toml
ResolveIndexPath(config, tomlFound) ==
    IF IsSome(config.index)
    THEN Some(IF tomlFound THEN Ok(Unwrap(config.index)) ELSE Err("Io"))
    ELSE None

\* web_resource.rs 43: try_exists(..).unwrap_or(false); an error of the check
\* reads as "does not exist"
ExistsOutcomes(f) == IF Present(f) THEN {TRUE, FALSE} ELSE {FALSE}

\* web_resource.rs 44-51: whether resolve_index_path is reached, and how it ends
IndexUse(exists, config, tomlFound) ==
    IF exists /\ ~config.overwrite /\ IsSome(config.index)
    THEN IF Unwrap(ResolveIndexPath(config, tomlFound)).ok THEN "resolved" ELSE "failed"
    ELSE "unused"

DecideIndexSkips(exists, config, tomlFound) ==
    IF ~exists THEN "download"
    ELSE IF config.overwrite THEN "download"
    ELSE "skip"

DecideAlways(exists, config, tomlFound) == "download"

DecideIndexFirst(exists, config, tomlFound) ==
    LET index == ResolveIndexPath(config, tomlFound)
    IN  IF IsSome(index) /\ ~Unwrap(index).ok THEN "error"
        ELSE IF ~exists THEN "download"
        ELSE IF config.overwrite THEN "download"
        ELSE IF IsSome(index) THEN "download"
        ELSE "skip"

DecideInverted(exists, config, tomlFound) ==
    IF ~exists THEN "download"
    ELSE IF ~config.overwrite THEN "download"
    ELSE LET index == ResolveIndexPath(config, tomlFound)
         IN  IF IsSome(index)
             THEN IF Unwrap(index).ok THEN "download" ELSE "error"
             ELSE "skip"

\* web_resource.rs 44-58: the value of `download`, or "error" when `index?`
\* returns
Decide(exists, config, tomlFound) ==
    IF ~exists THEN "download"
    ELSE IF config.overwrite THEN "download"
    ELSE LET index == ResolveIndexPath(config, tomlFound)
         IN  IF IsSome(index)
             THEN IF Unwrap(index).ok THEN "download" ELSE "error"
             ELSE "skip"

ResolvedPathLossy(res) == Ok(res.path)

\* web_resource.rs 36-40: the resolved path; `?` returns the error of a path
\* outside the root
ResolvedPath(res) == Resolve(res.path)

\* web_resource.rs 34-58: resolve the path, check the file, decide
TaskCheck(j, i) ==
    /\ task[j][i].pc = "start"
    /\ LET t == task[j][i]
           path == ResolvedPath(t.res)
           config == jobs[j].val.config
       IN  IF ~path.ok
           THEN task' = [task EXCEPT ![j][i] =
                            Finish([t EXCEPT !.decision = "error"], path.err)]
           ELSE \E exists \in ExistsOutcomes(fs[path.val]), tomlFound \in BOOLEAN :
                  LET download == Decide(exists, config, tomlFound)
                      index == IndexUse(exists, config, tomlFound)
                      t1 == [Did(t, "exists") EXCEPT
                                !.exists = IF exists THEN "yes" ELSE "no",
                                !.index = index,
                                !.decision = download]
                  IN  task' = [task EXCEPT ![j][i] =
                                  CASE download = "error" -> Finish(t1, "IndexPath")
                                    [] download = "skip" -> Finish(t1, "ok")
                                    [] OTHER -> [t1 EXCEPT !.pc = "mkdir"]]
    /\ UNCHANGED <<pureVars, fs, run, manifest, mainpc, jobs, stderr, nextSpawn, joined,
                   success, exit, jobpc, jobres, qres, notes>>

\* web_resource.rs 61-63: create_dir_all(parent)
TaskMkdir(j, i) ==
    /\ task[j][i].pc = "mkdir"
    /\ \E done \in BOOLEAN :
         task' = [task EXCEPT ![j][i] =
                     IF done THEN [Did(@, "mkdir") EXCEPT !.pc = "get"]
                     ELSE Finish(Did(@, "mkdir"), "Io")]
    /\ UNCHANGED <<pureVars, fs, run, manifest, mainpc, jobs, stderr, nextSpawn, joined,
                   success, exit, jobpc, jobres, qres, notes>>

\* web_resource.rs 65: reqwest::get(url)
TaskGet(j, i) ==
    /\ task[j][i].pc = "get"
    /\ \E done \in BOOLEAN :
         task' = [task EXCEPT ![j][i] =
                     IF done THEN [Did(@, "get") EXCEPT !.pc = "create"]
                     ELSE Finish(Did(@, "get"), "Network")]
    /\ UNCHANGED <<pureVars, fs, run, manifest, mainpc, jobs, stderr, nextSpawn, joined,
                   success, exit, jobpc, jobres, qres, notes>>

\* File::create: the file exists afterwards and is empty
Created(f) == Downloaded(0)

\* web_resource.rs 66: File::create(path)
TaskCreate(j, i) ==
    /\ task[j][i].pc = "create"
    /\ LET path == ResolvedPath(task[j][i].res).val
       IN  \/ /\ task' = [task EXCEPT ![j][i] = [Did(@, "create") EXCEPT !.pc = "body"]]
              /\ fs' = [fs EXCEPT ![path] = Created(@)]
           \/ /\ task' = [task EXCEPT ![j][i] = Finish(Did(@, "create"), "Io")]
              /\ fs' = fs
    /\ UNCHANGED <<pureVars, run, manifest, mainpc, jobs, stderr, nextSpawn, joined,
                   success, exit, jobpc, jobres, qres, notes>>

\* write_all at this task's offset: the file holds at least off + 1 chunks
Written(f, off) == [f EXCEPT !.n = Max(@, off + 1)]

AfterFailureRemoved(f) == Absent

AfterFailureRestored(f) == Orig

\* web_resource.rs 67-70: `?` returns the error; the file stays as it is
AfterFailure(f) == f

\* web_resource.rs 67-70: one iteration of the chunk loop, or its end and
\* the flush
TaskChunk(j, i) ==
    /\ task[j][i].pc = "body"
    /\ LET t == task[j][i]
           path == ResolvedPath(t.res).val
       IN  \/ /\ task' = [task EXCEPT ![j][i] = Finish(t, "Network")]
              /\ fs' = [fs EXCEPT ![path] = AfterFailure(@)]
           \/ /\ t.off < NChunks
              /\ \/ /\ task' = [task EXCEPT ![j][i] =
                                   [Did(t, "write") EXCEPT !.off = @ + 1]]
                    /\ fs' = [fs EXCEPT ![path] = Written(@, t.off)]
                 \/ /\ task' = [task EXCEPT ![j][i] = Finish(Did(t, "write"), "Io")]
                    /\ fs' = [fs EXCEPT ![path] = AfterFailure(@)]
           \/ /\ t.off = NChunks
              /\ \E flushed \in BOOLEAN :
                   /\ task' = [task EXCEPT ![j][i] =
                                  Finish(t, IF flushed THEN "ok" ELSE "Io")]
                   /\ fs' = [fs EXCEPT ![path] = IF flushed THEN @ ELSE AfterFailure(@)]
    /\ UNCHANGED <<pureVars, run, manifest, mainpc, jobs, stderr, nextSpawn, joined,
                   success, exit, jobpc, jobres, qres, notes>>

\* ------------------------------------------------------------ the process
Next ==
    \/ MainConstruct
    \/ MainSpawn
    \/ MainSpawned
    \/ \E j \in Jobs : MainJoin(j)
    \/ MainFinish
    \/ \E j \in Jobs : JobBegin(j)
    \/ \E j \in Jobs : JobQuery(j)
    \/ \E j \in Jobs : JobJoin(j)
    \/ \E j \in Jobs, i \in Slots : TaskCheck(j, i)
    \/ \E j \in Jobs, i \in Slots : TaskMkdir(j, i)
    \/ \E j \in Jobs, i \in Slots : TaskGet(j, i)
    \/ \E j \in Jobs, i \in Slots : TaskCreate(j, i)
    \/ \E j \in Jobs, i \in Slots : TaskChunk(j, i)

Spec == Init /\ [][Next]_vars

\* ------------------------------------------------- the process, run again
\* A manifest with one job of any configuration.
SyncManifests == {<<d>> : d \in Decl}

\* The process has ended and is invoked again: the manifest is read anew, the
\* files stay as the last run left them.
Restart ==
    /\ mainpc = "done"
    /\ run < MaxRuns
    /\ run' = run + 1
    /\ manifest' \in SyncManifests
    /\ mainpc' = "start"
    /\ jobs' = <<>>
    /\ stderr' = {}
    /\ nextSpawn' = 1
    /\ joined' = {}
    /\ success' = TRUE
    /\ exit' = "none"
    /\ jobpc' = [j \in Jobs |-> "unspawned"]
    /\ jobres' = [j \in Jobs |-> "none"]
    /\ qres' = [j \in Jobs |-> "none"]
    /\ notes' = [j \in Jobs |-> <<>>]
    /\ task' = [j \in Jobs |-> [i \in Slots |-> IdleTask]]
    /\ UNCHANGED <<pureVars, fs>>

InitSync == PureIdle /\ ProcInit(SyncManifests)

NextSync == Next \/ Restart

SpecSync == InitSync /\ [][NextSync]_vars

\* ------------------------------------------- the builder and the command
ProcIdle == ProcInit({<<>>}) /\ fs = [p \in Paths |-> Absent]

InitQuery ==
    /\ args \in Args
    /\ bSelf \in QueryBuilder
    /\ bConfig \in ConfigQuery
    /\ bResult = None
    /\ cmdLine = None
    /\ rawQuery = None
    /\ parsed = None
    /\ qOut = None
    /\ qResult = None
    /\ ProcIdle

\* build is applied to the config
DoBuild ==
    /\ bResult = None
    /\ bResult' = Some(Build(bSelf, bConfig))
    /\ UNCHANGED <<args, bSelf, bConfig, cmdLine, rawQuery, parsed, qOut, qResult, procVars>>

\* command is applied to the resolved query; the inputs map is iterated in
\* some order
DoCommand ==
    /\ IsSome(bResult)
    /\ Unwrap(bResult).ok
    /\ cmdLine = None
    /\ \E order \in KeyOrders(DOMAIN Unwrap(bResult).val.inputs) :
         cmdLine' = Some(Command(args, Unwrap(bResult).val, order))
    /\ UNCHANGED <<args, bSelf, bConfig, bResult, rawQuery, parsed, qOut, qResult, procVars>>

NextQuery == DoBuild \/ DoCommand

SpecQuery == InitQuery /\ [][NextQuery]_vars

\* ------------------------- a web-resource query, from typst.toml to its result
\* What typst.toml can hold under the key `field`: nothing, a boolean, a string
\* or a value of another type.
TomlField ==
    {[t |-> "absent", v |-> ""], [t |-> "bool", v |-> "false"], [t |-> "bool", v |-> "true"],
     [t |-> "integer", v |-> "1"]}
    \cup {[t |-> "string", v |-> f] : f \in FieldNames}

DeserializeFieldLossy(toml) ==
    IF toml.t = "absent" THEN Ok(None)
    ELSE IF toml.t = "bool"
         THEN (IF toml.v = "true" THEN Err("invalid value") ELSE Ok(None))
    ELSE IF toml.t = "string" THEN Ok(Some(Some(toml.v)))
    ELSE Err("invalid type")

\* config.rs 45, 80-126: serde(default) for a missing key; visit_bool rejects
\* `true` and maps `false` to Some(None); visit_str and visit_string give
\* Some(Some(v)); any other type has no visit method and is an error
DeserializeField(toml) ==
    IF toml.t = "absent" THEN Ok(None)
    ELSE IF toml.t = "bool"
         THEN (IF toml.v = "true" THEN Err("invalid value") ELSE Ok(Some(None)))
    ELSE IF toml.t = "string" THEN Ok(Some(Some(toml.v)))
    ELSE Err("invalid type")

\* The `query` tables of typst.toml: the other keys are of their declared types
RawQueries == [selector : OptSelector, field : TomlField, one : OptOne, inputs : InputMaps]

\* config.rs 39-53: the derived deserializer of config::Query
ParseQuery(raw) ==
    LET field == DeserializeField(raw.field)
    IN  IF ~field.ok THEN field
        ELSE Ok([selector |-> raw.selector, field |-> field.val, one |-> raw.one,
                 inputs |-> raw.inputs])

InitExec ==
    /\ args \in Args
    /\ bSelf = WebResourceDefaults
    /\ bConfig = [selector |-> None, field |-> None, one |-> None, inputs |-> <<>>]
    /\ bResult = None
    /\ cmdLine = None
    /\ rawQuery \in {Some(r) : r \in RawQueries}
    /\ parsed = None
    /\ qOut = None
    /\ qResult = None
    /\ ProcIdle

\* typst.toml is deserialized; a query table that was accepted is the config
DoParse ==
    /\ parsed = None
    /\ LET r == ParseQuery(Unwrap(rawQuery))
       IN  /\ parsed' = Some(r)
           /\ bConfig' = IF r.ok THEN r.val ELSE bConfig
    /\ UNCHANGED <<args, bSelf, bResult, cmdLine, rawQuery, qOut, qResult, procVars>>

\* build_query is applied to the config
DoBuildQuery ==
    /\ IsSome(parsed)
    /\ Unwrap(parsed).ok
    /\ bResult = None
    /\ bResult' = Some(BuildQuery(bConfig))
    /\ UNCHANGED <<args, bSelf, bConfig, cmdLine, rawQuery, parsed, qOut, qResult, procVars>>

\* query runs the command that was built and reads what the child did
DoQuery ==
    /\ IsSome(cmdLine)
    /\ qResult = None
    /\ \E out \in Outputs :
         /\ qOut' = Some(out)
         /\ qResult' = Some(RunQuery(Unwrap(cmdLine), out))
    /\ UNCHANGED <<args, bSelf, bConfig, bResult, cmdLine, rawQuery, parsed, procVars>>

NextExec == DoParse \/ DoBuildQuery \/ DoCommand \/ DoQuery

SpecExec == InitExec /\ [][NextExec]_vars

\* ================================================================ claims

\* ---- QueryBuilder::build
\* What a setting resolves to: the user's value when present, else the default.
Resolution(user, default) == IF user # None THEN user ELSE default
\* The first unresolved setting in the order selector, field, one ("" if none).
FirstMissing(self, config) ==
    IF Resolution(config.selector, self.selector) = None THEN "Selector"
    ELSE IF Resolution(config.field, self.field) = None THEN "Field"
    ELSE IF Resolution(config.one, self.one) = None THEN "One"
    ELSE ""

\* C8: build resolves selector, field and one independently as the user's
\* value when present, else the kind default when present, else the error
\* naming that setting; an explicitly disabled user field is present and wins
\* over a default name; with several unresolved the error names the first in
\* the order selector, field, one.
C8_BuildPrecedence ==
    IsSome(bResult) =>
        LET r == Unwrap(bResult)
            missing == FirstMissing(bSelf, bConfig)
        IN  /\ r.ok <=> missing = ""
            /\ ~r.ok => r.err = missing
            /\ r.ok =>
                /\ Some(r.val.selector) = Resolution(bConfig.selector, bSelf.selector)
                /\ Some(r.val.field) = Resolution(bConfig.field, bSelf.field)
                /\ Some(r.val.one) = Resolution(bConfig.one, bSelf.one)
            /\ (r.ok /\ bConfig.field = Some(None)) => r.val.field = None

\* An explicitly disabled user field has won over a default field name, and
\* the user's selector and one over differing defaults.
C8_Witness ==
    /\ IsSome(bResult)
    /\ Unwrap(bResult).ok
    /\ bConfig.field = Some(None)
    /\ bSelf.field = Some(Some("name"))
    /\ Unwrap(bResult).val.field = None
    /\ bConfig.selector = Some("<other>")
    /\ bSelf.selector = Some("<sel>")
    /\ Unwrap(bResult).val.selector = "<other>"
    /\ bConfig.one = Some(TRUE)
    /\ bSelf.one = Some(FALSE)
    /\ Unwrap(bResult).val.one

\* ---- Query::command
\* How many `--input prequery-fallback=true` argument pairs a command line has.
FallbackPairs(cmd) ==
    Cardinality({i \in 1..(Len(cmd) - 1) :
                    cmd[i] = "--input" /\ cmd[i + 1] = "prequery-fallback=true"})
UserForcesFallback(inputs) ==
    "prequery-fallback" \in DOMAIN inputs /\ inputs["prequery-fallback"] = "true"

\* C6 as stated: every command line holds exactly one
\* `--input prequery-fallback=true` pair, whatever the user's inputs are.
C6_ExactlyOneFallback ==
    IsSome(cmdLine) => FallbackPairs(Unwrap(cmdLine)) = 1

\* C6 amended: the command appends one `--input prequery-fallback=true` pair
\* after all user inputs (it is the last --input pair, right before the input
\* file and the selector); the command line holds exactly one such pair unless
\* the user's inputs map `prequery-fallback` to `true`, and then it holds two.
C6_FallbackAppended ==
    IsSome(cmdLine) =>
        LET cmd == Unwrap(cmdLine)
            inputs == Unwrap(bResult).val.inputs
            n == Len(cmd)
        IN  /\ cmd[n - 3] = "--input"
            /\ cmd[n - 2] = "prequery-fallback=true"
            /\ FallbackPairs(cmd) = IF UserForcesFallback(inputs) THEN 2 ELSE 1

\* A command line was built from inputs that set prequery-fallback to true,
\* besides an unrelated key: it holds the user's pair and the appended one.
C6_Witness ==
    /\ IsSome(cmdLine)
    /\ DOMAIN bConfig.inputs = {"k", "prequery-fallback"}
    /\ bConfig.inputs["prequery-fallback"] = "true"
    /\ FallbackPairs(Unwrap(cmdLine)) = 2

\* ---- the scheduler
TaskIds == Jobs \X Slots
\* No job task was spawned: no notification, no query, no download task.
NothingRan ==
    \A j \in Jobs :
        /\ jobpc[j] = "unspawned"
        /\ jobres[j] = "none"
        /\ notes[j] = <<>>
        /\ \A i \in Slots : task[j][i] = IdleTask
Failed(results) == {j \in DOMAIN results : ~results[j].ok}

\* C1: the process ends in success iff every declared job constructed without
\* error and every job's run returned success; a single job whose run returned
\* an error makes the overall result a failure.
C1_ExitIffAllSucceed ==
    mainpc = "done" =>
        /\ exit \in {"ok", "fail"}
        /\ exit = "ok" <=>
              /\ DOMAIN jobs = DOMAIN manifest
              /\ \A j \in DOMAIN manifest : jobs[j].ok /\ jobres[j] = "ok"
        /\ (\E j \in Jobs : jobres[j] = "err") => exit = "fail"

\* Two jobs ran; the first one's run returned an error, the second one's
\* success, and the process failed.
C1_Witness ==
    /\ mainpc = "done"
    /\ Len(manifest) = 2
    /\ jobres[1] = "err"
    /\ jobres[2] = "ok"
    /\ exit = "fail"

\* C2 as stated: a job one of whose resource tasks ended in an error has its
\* run return an error.
C2_FailedResourceFailsJob ==
    \A j \in Jobs :
        (jobpc[j] = "done" /\ \E i \in Slots :
                                 task[j][i].pc = "done" /\ task[j][i].result # "ok")
            => jobres[j] = "err"

\* C3: every declared job is constructed before anything runs; if at least one
\* construction fails, every failure is reported with its job, the process
\* fails and no job runs: no start notification, no query, no download task,
\* also for the jobs that constructed.
C3_ConstructBeforeRun ==
    /\ mainpc = "start" => NothingRan
    /\ mainpc # "start" => DOMAIN jobs = DOMAIN manifest
    /\ (mainpc # "start" /\ Failed(jobs) # {}) =>
          /\ mainpc = "done"
          /\ exit = "fail"
          /\ stderr = {<<j, jobs[j].err>> : j \in Failed(jobs)}
          /\ NothingRan

\* A well-formed job and a job of an unknown kind were declared: the unknown
\* kind was reported and the well-formed job never started.
C3_Witness ==
    /\ mainpc = "done"
    /\ Len(manifest) = 2
    /\ manifest[2].kind = "bogus"
    /\ jobs[1].ok
    /\ stderr = {<<2, "UnknownKind">>}
    /\ jobpc[1] = "unspawned"
    /\ exit = "fail"

\* C4: in the run phase every job is spawned, and main produces the overall
\* result only after every spawned job task has finished with its own result
\* (success or failure) and its own terminal notification; no job is stopped
\* because another failed.
C4_AllJobsComplete ==
    /\ mainpc = "join" => \A j \in DOMAIN jobs : jobpc[j] # "unspawned"
    /\ (mainpc = "done" /\ stderr = {}) =>
          \A j \in DOMAIN jobs :
              /\ jobpc[j] = "done"
              /\ jobres[j] \in {"ok", "err"}
              /\ notes[j] = <<"beginning job", Report(jobres[j])>>
              /\ \A i \in Slots : task[j][i].pc \in {"idle", "done"}

\* Main has returned after two jobs: the first failed at its query, the second
\* still downloaded its resource to the end.
C4_Witness ==
    /\ mainpc = "done"
    /\ Len(jobs) = 2
    /\ jobres[1] = "err"
    /\ jobres[2] = "ok"
    /\ task[2][1].pc = "done"
    /\ task[2][1].result = "ok"
    /\ task[2][1].off = NChunks

\* ---- WebResource::download
\* The tasks that got past path resolution and checked the file.
Checked == {id \in TaskIds : task[id[1]][id[2]].exists # "unknown"}
ConfigOf(id) == jobs[id[1]].val.config
Transfer == {"mkdir", "get", "create", "write"}

\* C5 as stated: the decision is a function of (exists, overwrite, index
\* enabled) alone, with an existing file, overwrite=false and an index always
\* giving download.
C5_DecisionTotal ==
    \A id \in Checked :
        LET t == task[id[1]][id[2]]
            c == ConfigOf(id)
        IN  t.decision = IF t.exists = "no" THEN "download"
                         ELSE IF c.overwrite THEN "download"
                         ELSE IF IsSome(c.index) THEN "download"
                         ELSE "skip"

\* C5 amended: exists=false gives download; exists=true and overwrite=true
\* gives download; exists=true, overwrite=false and an index gives download
\* when the index path resolves and an error without any download when it does
\* not; exists=true, overwrite=false and no index gives skip, with no request
\* and no write.
C5_DecisionMatrix ==
    \A id \in Checked :
        LET t == task[id[1]][id[2]]
            c == ConfigOf(id)
        IN  /\ t.exists = "no" => t.decision = "download" /\ t.index = "unused"
            /\ (t.exists = "yes" /\ c.overwrite) =>
                  t.decision = "download" /\ t.index = "unused"
            /\ (t.exists = "yes" /\ ~c.overwrite /\ IsSome(c.index)) =>
                  \/ t.index = "resolved" /\ t.decision = "download"
                  \/ /\ t.index = "failed"
                     /\ t.decision = "error"
                     /\ t.pc = "done"
                     /\ t.result # "ok"
                     /\ t.ops \cap Transfer = {}
            /\ (t.exists = "yes" /\ ~c.overwrite /\ ~IsSome(c.index)) =>
                  /\ t.decision = "skip"
                  /\ t.index = "unused"
                  /\ t.pc = "done"
                  /\ t.ops \cap Transfer = {}

\* An existing file was downloaded again because an index is configured and
\* its path resolved.
C5_Witness ==
    \E id \in Checked :
        LET t == task[id[1]][id[2]]
        IN  /\ t.exists = "yes"
            /\ ~ConfigOf(id).overwrite
            /\ IsSome(ConfigOf(id).index)
            /\ t.decision = "download"
            /\ t.pc = "done"
            /\ t.result = "ok"
            /\ "get" \in t.ops

\* C7: a resource whose path resolves outside the project root ends in the
\* path-containment error and never reaches the file system: no existence
\* check, no directory creation, no request, no file creation or write.
C7_OutsideRootUntouched ==
    /\ \A p \in OutsidePaths : fs[p] = Absent
    /\ \A id \in TaskIds :
          LET t == task[id[1]][id[2]]
          IN  (t.pc # "idle" /\ t.res.path \in OutsidePaths) =>
                  /\ t.ops = {}
                  /\ t.exists = "unknown"
                  /\ t.pc \in {"start", "done"}
                  /\ t.pc = "done" => t.result = "PathOutsideRoot"

\* A resource with a path outside the root has failed and its job has returned.
C7_Witness ==
    \E id \in TaskIds :
        LET t == task[id[1]][id[2]]
        IN  /\ t.res.path \in OutsidePaths
            /\ t.pc = "done"
            /\ t.result = "PathOutsideRoot"
            /\ jobpc[id[1]] = "done"

C11_QueryOutcome ==
    IsSome(qResult) =>
        LET out == Unwrap(qOut)
            r == Unwrap(qResult)
        IN  /\ ~out.launched => (~r.ok /\ r.err = [kind |-> "Io"])
            /\ (out.launched /\ out.status # 0)
                   => /\ ~r.ok
                      /\ r.err = [kind |-> "Failure", command |-> Unwrap(cmdLine),
                                  status |-> out.status]
            /\ (out.launched /\ out.status = 0 /\ ~out.decodes)
                   => (~r.ok /\ r.err = [kind |-> "Json"])
            /\ (out.launched /\ out.status = 0 /\ out.decodes)
                   => (r.ok /\ r.val = out.data)

\* a child that exited with a non-zero status and printed what does not decode
C11_Witness ==
    /\ IsSome(qResult)
    /\ Unwrap(qOut).launched
    /\ Unwrap(qOut).status # 0
    /\ ~Unwrap(qOut).decodes
    /\ ~Unwrap(qResult).ok
    /\ Unwrap(qResult).err.kind = "Failure"

\* ---- WebResourceFactory::build_query
\* C12: build_query fails with the configuration error whenever the user's
\* query sets one to true; a query table without any value resolves to one
\* false, selector "<web-resource>" and field "value"; no query that
\* build_query returned has one true.
C12_OneUnsupported ==
    IsSome(bResult) =>
        LET r == Unwrap(bResult)
        IN  /\ bConfig.one = Some(TRUE)
                   => (~r.ok /\ r.err = "web-resource prequery does not support --one")
            /\ (bConfig.selector = None /\ bConfig.field = None /\ bConfig.one = None)
                   => /\ r.ok
                      /\ r.val.one = FALSE
                      /\ r.val.selector = "<web-resource>"
                      /\ r.val.field = Some("value")
            /\ r.ok => r.val.one = FALSE

\* a user's query with one = true and its own selector was refused
C12_Witness ==
    /\ IsSome(bResult)
    /\ bConfig.one = Some(TRUE)
    /\ bConfig.selector = Some("<other>")
    /\ ~Unwrap(bResult).ok

\* ---- Query::command
\* C16: the arguments are, in this order: `query`; `--root <root>` only if a
\* root is set; `--field <field>` only if the query has a field; `--one` only
\* if one is true; one `--input key=value` pair per entry of inputs; then
\* `--input prequery-fallback=true` after all of the user's inputs; then the
\* input file; the selector last.
C16_ArgumentOrder ==
    IsSome(cmdLine) =>
        LET q == Unwrap(bResult).val
            cmd == Unwrap(cmdLine)
            r == IF IsSome(args.root) THEN 2 ELSE 0
            f == IF IsSome(q.field) THEN 2 ELSE 0
            o == IF q.one THEN 1 ELSE 0
            n == Cardinality(DOMAIN q.inputs)
            base == 1 + r + f + o
        IN  /\ Len(cmd) = base + 2 * n + 4
            /\ cmd[1] = "query"
            /\ IsSome(args.root) => (cmd[2] = "--root" /\ cmd[3] = Unwrap(args.root))
            /\ IsSome(q.field) => (cmd[2 + r] = "--field" /\ cmd[3 + r] = Unwrap(q.field))
            /\ q.one => cmd[2 + r + f] = "--one"
            /\ \A k \in 1..n : cmd[base + 2 * k - 1] = "--input"
            /\ \A key \in DOMAIN q.inputs :
                   Cardinality({k \in 1..n :
                       cmd[base + 2 * k] = key \o "=" \o q.inputs[key]}) = 1
            /\ cmd[base + 2 * n + 1] = "--input"
            /\ cmd[base + 2 * n + 2] = "prequery-fallback=true"
            /\ cmd[Len(cmd) - 1] = args.input
            /\ cmd[Len(cmd)] = q.selector

\* a command with a root, a field, --one and two user inputs
C16_Witness ==
    /\ IsSome(cmdLine)
    /\ IsSome(args.root)
    /\ IsSome(Unwrap(bResult).val.field)
    /\ Unwrap(bResult).val.one
    /\ Cardinality(DOMAIN Unwrap(bResult).val.inputs) = 2
    /\ Len(Unwrap(cmdLine)) = 14

\* ---- the field setting, from typst.toml to the command line
\* The positions of `--field` in a command line
FieldAt(cmd) == {i \in 1..Len(cmd) : cmd[i] = "--field"}

\* C18: for a web-resource query, a missing `field` key parses to not
\* specified and resolves to the kind's default; `false` parses to explicitly
\* disabled, resolves to no field although the kind's default is a name, and
\* the command line has no `--field`; a string parses to that name and the
\* command line has `--field <name>`; `true` is rejected when parsing.
C18_FieldTriState ==
    IsSome(parsed) =>
        LET raw == Unwrap(rawQuery).field
            p == Unwrap(parsed)
            built == IsSome(bResult) /\ Unwrap(bResult).ok
            field == Unwrap(bResult).val.field
            cmd == Unwrap(cmdLine)
        IN  /\ raw.t = "absent"
                   => /\ p.ok /\ p.val.field = None
                      /\ built => field = Unwrap(WebResourceDefaults.field)
                      /\ IsSome(cmdLine)
                            => \E i \in 1..Len(cmd) - 1 :
                                   FieldAt(cmd) = {i} /\ cmd[i + 1] = "value"
            /\ (raw.t = "bool" /\ raw.v = "false")
                   => /\ p.ok /\ p.val.field = Some(None)
                      /\ built => field = None
                      /\ IsSome(cmdLine) => FieldAt(cmd) = {}
            /\ raw.t = "string"
                   => /\ p.ok /\ p.val.field = Some(Some(raw.v))
                      /\ built => field = Some(raw.v)
                      /\ IsSome(cmdLine)
                            => \E i \in 1..Len(cmd) - 1 :
                                   FieldAt(cmd) = {i} /\ cmd[i + 1] = raw.v
            /\ (raw.t = "bool" /\ raw.v = "true")
                   => (~p.ok /\ bResult = None /\ cmdLine = None)

\* `field = false` in typst.toml, and a command line built without --field
C18_Witness ==
    /\ IsSome(cmdLine)
    /\ Unwrap(rawQuery).field = [t |-> "bool", v |-> "false"]
    /\ Unwrap(bResult).val.field = None
    /\ FieldAt(Unwrap(cmdLine)) = {}

\* ---- concurrent download tasks
PathOf(id) == task[id[1]][id[2]].res.path
Writing(id) == task[id[1]][id[2]].pc = "body"

\* C13: within one run no two download tasks, of one job or of two, have the
\* same local file created and open for writing at the same time, also when
\* the query result lists a path twice.
C13_NoSharedFile ==
    \A a, b \in TaskIds : (a # b /\ Writing(a) /\ Writing(b)) => PathOf(a) # PathOf(b)

\* ---- a download that fails after File::create
\* C14: when a download fails after its local file was created (a chunk of
\* the body could not be read, a write or the flush failed), the task ends in
\* error and the file stays as the failing step found it: present, holding
\* what was written so far, neither removed nor restored to what it held
\* before.
C14_FailedStep ==
    \A id \in TaskIds :
        LET t == task[id[1]][id[2]]
            path == ResolvedPath(t.res).val
        IN  (t.pc = "body" /\ task'[id[1]][id[2]].pc = "done"
                           /\ task'[id[1]][id[2]].result # "ok")
               => /\ task'[id[1]][id[2]].result \in {"Network", "Io"}
                  /\ fs'[path] = fs[path]
                  /\ fs'[path].st = "dl"
C14_PartialFileStays == [][C14_FailedStep]_vars

\* the only download of the first run failed after one of the chunks was
\* written, and the file holds that chunk
C14_Witness ==
    /\ run = 1
    /\ Spawned = 1
    /\ \E id \in TaskIds :
         LET t == task[id[1]][id[2]]
         IN  /\ t.pc = "done"
             /\ t.result \in {"Network", "Io"}
             /\ t.off = 1
             /\ fs[t.res.path] = Downloaded(1)

\* ---- WebResource::run: the download tasks of one job
\* The download tasks of job j are those of the first records: no slot is
\* taken after an idle one.
SpawnedPrefix(j) ==
    \A i \in Slots : task[j][i].pc # "idle" => \A k \in 1..i : task[j][k].pc # "idle"
C15_Joined ==
    \A j \in Jobs :
        /\ SpawnedPrefix(j)
        /\ \A i \in Slots : task[j][i].pc # "idle" => task[j][i].res \in Resource
        /\ jobpc[j] = "done" => \A i \in Slots : task[j][i].pc \in {"idle", "done"}
C15_FailingStep ==
    \A id \in TaskIds :
        (task[id[1]][id[2]].pc \notin {"idle", "done"}
           /\ task'[id[1]][id[2]].pc = "done" /\ task'[id[1]][id[2]].result # "ok")
        => /\ \A other \in TaskIds \ {id} :
                 task'[other[1]][other[2]] = task[other[1]][other[2]]
           /\ jobpc' = jobpc

\* C15: within one job there is one download task per record of the query
\* result, spawned together; the step in which one of them fails leaves its
\* siblings and the job as they are; and run has returned only when every
\* task that was spawned has completed.
C15_SiblingsJoined == [][C15_Joined' /\ C15_FailingStep]_vars

\* the job has returned; its first download failed and its sibling went on to
\* write the whole body
C15_Witness ==
    /\ jobpc[1] = "done"
    /\ task[1][1].pc = "done"
    /\ task[1][1].result \notin {"ok", "none"}
    /\ task[1][2].pc = "done"
    /\ task[1][2].result = "ok"
    /\ task[1][2].off = NChunks

\* ---- main.rs: the notifications of a job task
\* C17: a job task prints the start notification before its run begins, and
\* after the run has returned exactly one terminal notification: `job
\* finished` if run returned Ok, `job failed` if it returned Err; no job has
\* both or neither.
C17_Notifications ==
    \A j \in Jobs :
        /\ jobpc[j] \in {"unspawned", "begin"} => notes[j] = <<>>
        /\ jobpc[j] \in {"query", "joining"}
               => (notes[j] = <<"beginning job">> /\ jobres[j] = "none")
        /\ jobpc[j] = "done"
               => /\ Len(notes[j]) = 2
                  /\ notes[j][1] = "beginning job"
                  /\ jobres[j] = "ok" => notes[j][2] = "job finished"
                  /\ jobres[j] = "err" => notes[j][2] = "job failed"
                  /\ jobres[j] \in {"ok", "err"}

\* one job reported success, the other failure
C17_Witness ==
    /\ jobres[1] = "ok"
    /\ notes[1] = <<"beginning job", "job finished">>
    /\ jobres[2] = "err"
    /\ notes[2] = <<"beginning job", "job failed">>

\* ---- WebResource::run: the query comes first
QueryErrors == {"Io", "Failure", "Json"}
NoTask(j) == \A i \in Slots : task[j][i] = IdleTask
C19_QueryFirst ==
    \A j \in Jobs :
        /\ qres[j] = "none" => NoTask(j)
        /\ ~NoTask(j) => qres[j] = "ok"
        /\ qres[j] \in QueryErrors
               => /\ jobpc[j] = "done"
                  /\ jobres[j] = "err"
                  /\ NoTask(j)
C19_FailingQuery ==
    \A j \in Jobs :
        (qres[j] = "none" /\ qres'[j] \in QueryErrors)
        => /\ fs' = fs
           /\ \A k \in Jobs \ {j} :
                 /\ task'[k] = task[k]
                 /\ jobpc'[k] = jobpc[k]
                 /\ jobres'[k] = jobres[k]
                 /\ qres'[k] = qres[k]
                 /\ notes'[k] = notes[k]

\* C19: in run the query completes before any download task is spawned; when
\* the query fails (I/O, exit status or decoding), run returns an error, the
\* job has no download task, so it checks, creates and writes no file, and
\* the other jobs are left as they are.
C19_QueryFailureStops == [][C19_QueryFirst' /\ C19_FailingQuery]_vars

\* the query of job 2 failed; job 1 downloaded its file all the same
C19_Witness ==
    /\ qres[2] \in QueryErrors
    /\ jobpc[2] = "done"
    /\ NoTask(2)
    /\ qres[1] = "ok"
    /\ jobpc[1] = "done"
    /\ task[1][1].result = "ok"
    /\ "write" \in task[1][1].ops
    /\ fs[task[1][1].res.path] = Downloaded(NChunks)

\* ---- download: when the index path is resolved
C20_IndexUse ==
    \A id \in Checked :
        LET t == task[id[1]][id[2]]
            c == ConfigOf(id)
        IN  /\ t.index # "unused"
                   <=> (t.exists = "yes" /\ ~c.overwrite /\ IsSome(c.index))
            /\ t.index = "failed"
                   => /\ t.pc = "done"
                      /\ t.result = "IndexPath"
                      /\ t.decision = "error"
                      /\ t.ops \cap Transfer = {}
            /\ (t.exists = "no" \/ c.overwrite) => t.decision = "download"
C20_FailingCheck ==
    \A id \in TaskIds :
        (task[id[1]][id[2]].pc = "start" /\ task'[id[1]][id[2]].index = "failed")
        => fs' = fs

\* C20: the index path is resolved only by a download whose file exists and
\* whose job has overwrite = false and an index; when resolving it fails the
\* download ends in error, nothing is transferred and the files are as they
\* were; for a missing file or with overwrite = true the download is decided
\* whether or not the index path can be resolved.
C20_IndexOnlyWhenNeeded == [][C20_IndexUse' /\ C20_FailingCheck]_vars

\* an existing file, overwrite = false, an index that could not be resolved:
\* the download ended in error and the file is the one that was there
C20_Witness ==
    \E id \in Checked :
        LET t == task[id[1]][id[2]]
        IN  /\ t.index = "failed"
            /\ t.exists = "yes"
            /\ t.pc = "done"
            /\ fs[t.res.path] = Orig

\* ---- reruns after a download that failed with its file created
\* The file at p holds a part of a body and no download task of the current
\* run has reached File::create for it: a download of an earlier run failed
\* after it had created the file.
StalePartial(p) ==
    /\ fs[p].st = "dl"
    /\ fs[p].n < NChunks
    /\ \A id \in TaskIds : PathOf(id) = p => "create" \notin task[id[1]][id[2]].ops
\* Every job of the current run has overwrite = false and no index.
SkipConfigs ==
    \A j \in DOMAIN jobs :
        jobs[j].ok => (~jobs[j].val.config.overwrite /\ jobs[j].val.config.index = None)
\* The download tasks for p that make their existence check in this step
Checking(p) ==
    {id \in TaskIds : /\ PathOf(id) = p
                       /\ task[id[1]][id[2]].pc = "start"
                       /\ task'[id[1]][id[2]].pc # "start"}

\* C21 as stated: once an earlier run left a partial file, every run with
\* overwrite = false and no index skips the resource and the partial content
\* stays, whatever else happens in the run.
C21_AlwaysSkipped ==
    [][\A p \in InsidePaths :
          (StalePartial(p) /\ SkipConfigs)
          => /\ fs'[p] = fs[p]
             /\ \A id \in Checking(p) : task'[id[1]][id[2]].decision = "skip"]_vars

\* C21: once an earlier run left a partial file, a download of a run with
\* overwrite = false and no index whose existence check finds the file is
\* skipped with success and changes no file; the partial content is replaced
\* only by a download whose existence check failed, which reads the file as
\* missing and creates it anew.
C21_SkippedWhileFound ==
    [][\A p \in InsidePaths :
          (StalePartial(p) /\ SkipConfigs)
          => /\ \A id \in Checking(p) :
                   LET t == task'[id[1]][id[2]]
                   IN  t.exists = "yes"
                          => /\ t.decision = "skip"
                             /\ t.pc = "done"
                             /\ t.result = "ok"
                             /\ fs' = fs
             /\ fs'[p] # fs[p]
                   => \E id \in TaskIds :
                          /\ PathOf(id) = p
                          /\ task[id[1]][id[2]].pc = "create"
                          /\ task[id[1]][id[2]].exists = "no"
                          /\ task'[id[1]][id[2]].pc = "body"]_vars

\* the third run, with overwrite = false and no index, has ended; it skipped
\* the resource, whose file still holds the one chunk an earlier run wrote
C21_Witness ==
    /\ run = MaxRuns
    /\ mainpc = "done"
    /\ SkipConfigs
    /\ \E p \in InsidePaths :
         /\ StalePartial(p)
         /\ fs[p] = Downloaded(1)
         /\ \E id \in Checked :
               /\ PathOf(id) = p
               /\ task[id[1]][id[2]].decision = "skip"
               /\ task[id[1]][id[2]].result = "ok"
====
